---------------------------- MODULE Spec2Model ----------------------------
(***************************************************************************)
(* Model of src/app.py: a Streamlit script (main) that is re-executed from *)
(* the top after every user interaction.  One TLA+ step is one user event  *)
(* followed by one complete execution of the script, or one execution      *)
(* requested by st.rerun().                                                *)
(*                                                                         *)
(* Strings are sequences of tokens.  A token is either one character       *)
(* (" ", "a", "1", "-") or a literal chunk of the source text that holds   *)
(* no character the model splits or strips on ("Prescription").            *)
(***************************************************************************)
EXTENDS Integers, Sequences, FiniteSets, TLC

VARIABLES
    page,                   \* st.session_state.page
    current_prescription,   \* st.session_state.current_prescription
    chat_history,           \* st.session_state.chat_history
    radio,                  \* value of the sidebar radio widget
    uploaded_file,          \* value of the file_uploader widget
    selectbox,              \* value of the selectbox widget, with its options
    store,                  \* documents of the MongoDB collection, insertion order
    api_key,                \* MISTRAL_API_KEY
    pc,                     \* "idle": waiting for the user; "run": a script run is pending
    view,                   \* what the last script run rendered
    turn,                   \* the chat turn the last script run executed, if any
    turns,                  \* chat turns completed since the history was last empty
    last                    \* the user event the last script run served

vars == <<page, current_prescription, chat_history, radio, uploaded_file,
          selectbox, store, api_key, pc, view, turn, turns, last>>

(***************************************************************************)
(* Bounds                                                                  *)
(***************************************************************************)
MaxText == 1        \* longest raw OCR output, in characters
MaxRecords == 2     \* most documents in the collection at start
MaxTurns == 2       \* most chat turns between two clears
MaxOrdinal == 12    \* largest ordinal whose label is formatted and parsed back

(***************************************************************************)
(* Values                                                                  *)
(***************************************************************************)
\* Python's None.  The token occurs in no string of the model.
None == <<"\\None">>

\* Python truthiness of an Optional[str]
Truthy(x) == x # None /\ x # <<>>

ExtractText == "Extract Text"
ChatWithData == "Chat with Prescription Data"
DirectChat == "Direct Chat"
Pages == {ExtractText, ChatWithData, DirectChat}

\* characters the OCR engine can return
OcrChars == {"a", " "}

RawTexts == UNION {[1..n -> OcrChars] : n \in 0..MaxText}

\* An uploaded image is identified by what pytesseract does with it.
Images == {[ok |-> FALSE, raw |-> <<>>]} \cup {[ok |-> TRUE, raw |-> t] : t \in RawTexts}

NoFile == [ok |-> FALSE, raw |-> None]

\* extracted_text values found in the collection at start
StoredTexts == {<<>>, <<"a">>}

Queries == {<<"q">>}

Completions == {<<"r">>}

\* what requests.post / raise_for_status / the JSON lookup can do
ApiOutcomes == {[kind |-> "ok", text |-> c] : c \in Completions}
               \cup {[kind |-> "error", text |-> <<"HTTPError">>],
                     [kind |-> "error", text |-> <<"KeyError: 'choices'">>]}

ApiKeys == {None, <<"k">>}

\* what the collaborators do during one script run
Envs == [db : BOOLEAN, insert : BOOLEAN, find : BOOLEAN, api : ApiOutcomes]



(***************************************************************************)
(* String helpers                                                          *)
(***************************************************************************)
RECURSIVE lstrip(_)
\* str.lstrip(): drop leading whitespace
lstrip(s) == IF s # <<>> /\ Head(s) = " " THEN lstrip(Tail(s)) ELSE s

RECURSIVE rstrip(_)
\* str.rstrip(): drop trailing whitespace
rstrip(s) == IF s # <<>> /\ s[Len(s)] = " " THEN rstrip(SubSeq(s, 1, Len(s) - 1)) ELSE s

\* str.strip()
strip(s) == rstrip(lstrip(s))

DigitChar == <<"0", "1", "2", "3", "4", "5", "6", "7", "8", "9">>

RECURSIVE IntStr(_)
\* the decimal text an f-string substitutes for a non-negative int
IntStr(n) == IF n < 10 THEN <<DigitChar[n + 1]>>
             ELSE IntStr(n \div 10) \o <<DigitChar[(n % 10) + 1]>>

DigitVal(c) == CHOOSE d \in 0..9 : DigitChar[d + 1] = c

RECURSIVE ParseInt(_)
\* int(s) for a string of decimal digits
ParseInt(s) == IF Len(s) = 1 THEN DigitVal(s[1])
               ELSE 10 * ParseInt(SubSeq(s, 1, Len(s) - 1)) + DigitVal(s[Len(s)])

RECURSIVE Split(_, _)
\* str.split(sep) for a one-character separator: the fields between separators
Split(s, sep) ==
    IF \A i \in 1..Len(s) : s[i] # sep THEN <<s>>
    ELSE LET k == CHOOSE i \in 1..Len(s) : s[i] = sep /\ \A j \in 1..(i - 1) : s[j] # sep
         IN  <<SubSeq(s, 1, k - 1)>> \o Split(SubSeq(s, k + 1, Len(s)), sep)

RECURSIVE Join(_, _)
\* sep.join(parts)
Join(parts, sep) ==
    IF parts = <<>> THEN <<>>
    ELSE IF Len(parts) = 1 THEN parts[1]
    ELSE parts[1] \o sep \o Join(Tail(parts), sep)

\* str(datetime): a date, a space, a time of day
DateStr(d) == <<"2024-01-">> \o IntStr(d) \o <<" ", "00:00:00">>

(***************************************************************************)
(* Collaborator adapters                                                   *)
(***************************************************************************)
\* get_db_connection(): the collection, or None when the ping fails
get_db_connection(e) == e.db

\* extract_text_from_image where the except branch returns the placeholder
\* text instead of None
extract_text_from_image_placeholder(image) ==
    IF ~image.ok THEN <<"No text detected">>
    ELSE IF image.raw # <<>> THEN strip(image.raw)
    ELSE <<"No text detected">>

\* extract_text_from_image(image): None when pytesseract raises
extract_text_from_image(image) ==
    IF ~image.ok THEN None
    ELSE IF image.raw # <<>> THEN strip(image.raw)
    ELSE <<"No text detected">>

\* upload_date of the next insert: datetime.now(), later than every stored date
Now(st) == 1 + Cardinality(UNION {1..st[i].upload_date : i \in DOMAIN st})

\* save_to_database(extracted_text, collection): the collection afterwards
\* and the inserted id (None when insert_one raises)
save_to_database(extracted_text, st, e) ==
    IF e.insert
    THEN [store |-> Append(st, [extracted_text |-> extracted_text, upload_date |-> Now(st)]),
          id |-> <<"id">> \o IntStr(Len(st) + 1)]
    ELSE [store |-> st, id |-> None]

RECURSIVE SortByDateAsc(_, _)
\* the sort with direction 1 instead of -1
SortByDateAsc(st, idx) ==
    IF idx = {} THEN <<>>
    ELSE LET k == CHOOSE i \in idx : \A j \in idx : st[i].upload_date <= st[j].upload_date
         IN  <<st[k]>> \o SortByDateAsc(st, idx \ {k})

RECURSIVE SortByDateDesc(_, _)
\* cursor.sort("upload_date", -1) over the documents with indices in idx
SortByDateDesc(st, idx) ==
    IF idx = {} THEN <<>>
    ELSE LET k == CHOOSE i \in idx : \A j \in idx : st[j].upload_date <= st[i].upload_date
         IN  <<st[k]>> \o SortByDateDesc(st, idx \ {k})

\* fetch_stored_prescriptions(collection): [] when find raises
fetch_stored_prescriptions(st, e) ==
    IF e.find THEN SortByDateDesc(st, DOMAIN st) ELSE <<>>

\* no request was sent
NoCall == [kind |-> "none", text |-> None]

MissingKeyError == <<"Error: Mistral API key not found. Please set it in the .env file.">>

PrescriptionSystemPrefix ==
    <<"You are a medical assistant that helps analyze prescription data. Answer questions based on the following prescription data:">>

GenericSystemMessage ==
    <<"You are a helpful medical assistant that can answer general medical questions. Note that you are not a replacement for professional medical advice.">>

\* the system message query_mistral_api builds (lines 81-88)
system_message(prescription_data) ==
    IF Truthy(prescription_data)
    THEN PrescriptionSystemPrefix \o (<<"\nPrescription data: ">> \o prescription_data)
    ELSE GenericSystemMessage

\* query_mistral_api without the credential check of line 77
query_mistral_api_no_key_check(prompt, prescription_data, key, e) ==
    IF e.api.kind = "ok"
    THEN [response |-> e.api.text, network |-> TRUE,
          system |-> system_message(prescription_data), api |-> e.api]
    ELSE [response |-> <<"Error querying Mistral API: ">> \o e.api.text, network |-> TRUE,
          system |-> system_message(prescription_data), api |-> e.api]

\* query_mistral_api(prompt, prescription_data): the returned text, whether
\* requests.post was called, with which system message, and what it did
query_mistral_api(prompt, prescription_data, key, e) ==
    IF ~Truthy(key)
    THEN [response |-> MissingKeyError, network |-> FALSE, system |-> None, api |-> NoCall]
    ELSE IF e.api.kind = "ok"
    THEN [response |-> e.api.text, network |-> TRUE,
          system |-> system_message(prescription_data), api |-> e.api]
    ELSE [response |-> <<"Error querying Mistral API: ">> \o e.api.text, network |-> TRUE,
          system |-> system_message(prescription_data), api |-> e.api]

(***************************************************************************)
(* The script                                                              *)
(*                                                                         *)
(* ss is st.session_state, w the widget values, st the collection, trig    *)
(* the set of trigger widgets (buttons, chat input) that fired for this    *)
(* run, query the submitted chat input, e what the collaborators do.       *)
(* Each operator returns the state the run leaves behind.                  *)
(***************************************************************************)
NoTurn == [page |-> "none", prompt |-> None, prescription_data |-> None,
           system |-> None, network |-> FALSE, api |-> NoCall, response |-> None]

EmptyView == [page |-> "none", widgets |-> {"radio"}, notices |-> {}, text_area |-> None,
              options |-> <<>>, selected |-> None, prescription_data |-> None,
              fetched |-> <<>>, listed |-> <<>>, panel |-> FALSE]

NoSelect == [options |-> <<>>, value |-> None]

\* st.button(key): True only in the run started by a click on that button
Button(key, trig) == key \in trig

Out(ss, st, v) == [ss |-> ss, store |-> st, view |-> v, turn |-> NoTurn, rerun |-> FALSE]

\* the label numbered from idx instead of idx + 1
OptionLabel_zero_based(i, prescription) ==
    <<"Prescription", " ">> \o IntStr(i - 1) \o <<" ", "-", " ">> \o DateStr(prescription.upload_date)

\* f"Prescription {idx + 1} - {prescription['upload_date']}"
OptionLabel(i, prescription) ==
    <<"Prescription", " ">> \o IntStr(i) \o <<" ", "-", " ">> \o DateStr(prescription.upload_date)

AllPrescriptions == <<"All", " ", "Prescriptions">>

CurrentExtracted == <<"Current", " ", "Extracted", " ", "Prescription">>

\* f"Prescription {idx + 1}:\n{prescription['extracted_text']}"
AllBlock(i, prescription) ==
    <<"Prescription", " ">> \o IntStr(i) \o <<":", "\n">> \o prescription.extracted_text

\* "\n\n".join(... for idx, prescription in enumerate(prescriptions))
AllData(prescriptions) ==
    Join([i \in 1..Len(prescriptions) |-> AllBlock(i, prescriptions[i])], <<"\n", "\n">>)

\* the options with the current-prescription entry inserted unconditionally
prescription_options_always_current(prescriptions, has_current_prescription) ==
    <<CurrentExtracted>>
    \o <<AllPrescriptions>>
    \o [i \in 1..Len(prescriptions) |-> OptionLabel(i, prescriptions[i])]

\* the selectbox options built at lines 273-279
prescription_options(prescriptions, has_current_prescription) ==
    (IF has_current_prescription THEN <<CurrentExtracted>> ELSE <<>>)
    \o <<AllPrescriptions>>
    \o [i \in 1..Len(prescriptions) |-> OptionLabel(i, prescriptions[i])]

\* st.selectbox(label, options): the stored choice while the widget is the
\* same (same options), else the first option
selectbox_value(sel, options) ==
    IF sel.options = options THEN sel.value ELSE options[1]

\* list[idx]: a negative index counts from the end of the list
PyIndex(list, idx) == IF idx >= 0 THEN list[idx + 1] ELSE list[Len(list) + idx + 1]

\* prescription_data for the selected option (lines 284-292)
selected_data(selected_option, prescriptions, ss) ==
    IF selected_option = AllPrescriptions THEN AllData(prescriptions)
    ELSE IF selected_option = CurrentExtracted THEN ss.current_prescription
    ELSE LET idx == ParseInt(Split(selected_option, " ")[2]) - 1
         IN  PyIndex(prescriptions, idx).extracted_text

\* display_chat_interface where a failed completion raises out of the turn
\* before the assistant message is appended
display_chat_interface_raise(prescription_data, ss, st, v, trig, query, e) ==
    LET pg == ss.page
        user_query == IF Button("chat_input", trig) THEN query ELSE None
        q == query_mistral_api(user_query, prescription_data, api_key, e)
        h0 == Append(ss.chat_history, [role |-> "user", content |-> user_query])
        h1 == IF Truthy(user_query)
              THEN IF q.api.kind = "ok"
                   THEN Append(h0, [role |-> "assistant", content |-> q.response])
                   ELSE h0
              ELSE ss.chat_history
        t1 == IF Truthy(user_query)
              THEN [page |-> pg, prompt |-> user_query, prescription_data |-> prescription_data,
                    system |-> q.system, network |-> q.network, api |-> q.api,
                    response |-> q.response]
              ELSE NoTurn
        v1 == [v EXCEPT !.panel = TRUE, !.widgets = @ \cup {"chat_input"}]
    IN  [ss |-> [ss EXCEPT !.chat_history = h1], store |-> st, view |-> v1,
         turn |-> t1, rerun |-> FALSE]

\* display_chat_interface where the turn assigns a fresh two-message list to
\* chat_history instead of appending to it
display_chat_interface_replace(prescription_data, ss, st, v, trig, query, e) ==
    LET pg == ss.page
        user_query == IF Button("chat_input", trig) THEN query ELSE None
        q == query_mistral_api(user_query, prescription_data, api_key, e)
        h1 == IF Truthy(user_query)
              THEN <<[role |-> "user", content |-> user_query],
                     [role |-> "assistant", content |-> q.response]>>
              ELSE ss.chat_history
        t1 == IF Truthy(user_query)
              THEN [page |-> pg, prompt |-> user_query, prescription_data |-> prescription_data,
                    system |-> q.system, network |-> q.network, api |-> q.api,
                    response |-> q.response]
              ELSE NoTurn
        v1 == [v EXCEPT !.panel = TRUE,
                          !.widgets = @ \cup {"chat_input"}
                                        \cup (IF h1 # <<>> THEN {"clear_chat_history_button"} ELSE {})]
    IN  IF h1 # <<>> /\ Button("clear_chat_history_button", trig)
        THEN [ss |-> [ss EXCEPT !.chat_history = <<>>], store |-> st, view |-> v1,
              turn |-> t1, rerun |-> TRUE]
        ELSE [ss |-> [ss EXCEPT !.chat_history = h1], store |-> st, view |-> v1,
              turn |-> t1, rerun |-> FALSE]

\* display_chat_interface(prescription_data), lines 119-162
display_chat_interface(prescription_data, ss, st, v, trig, query, e) ==
    LET pg == ss.page
        user_query == IF Button("chat_input", trig) THEN query ELSE None
        q == query_mistral_api(user_query, prescription_data, api_key, e)
        h1 == IF Truthy(user_query)
              THEN Append(Append(ss.chat_history, [role |-> "user", content |-> user_query]),
                          [role |-> "assistant", content |-> q.response])
              ELSE ss.chat_history
        t1 == IF Truthy(user_query)
              THEN [page |-> pg, prompt |-> user_query, prescription_data |-> prescription_data,
                    system |-> q.system, network |-> q.network, api |-> q.api,
                    response |-> q.response]
              ELSE NoTurn
        v1 == [v EXCEPT !.panel = TRUE,
                          !.widgets = @ \cup {"chat_input"}
                                        \cup (IF h1 # <<>> THEN {"clear_chat_history_button"} ELSE {})]
    IN  IF h1 # <<>> /\ Button("clear_chat_history_button", trig)
        THEN [ss |-> [ss EXCEPT !.chat_history = <<>>], store |-> st, view |-> v1,
              turn |-> t1, rerun |-> TRUE]
        ELSE [ss |-> [ss EXCEPT !.chat_history = h1], store |-> st, view |-> v1,
              turn |-> t1, rerun |-> FALSE]

\* the three follow-on buttons when the collection is available, lines 210-244
follow_on_db(extracted_text, ss, st, v, trig, e) ==
    LET v1 == [v EXCEPT !.widgets = @ \cup {"submit_to_db_button", "view_prescriptions_button",
                                             "chat_prescription_button"}]
        saved == IF Button("submit_to_db_button", trig)
                 THEN save_to_database(extracted_text, st, e)
                 ELSE [store |-> st, id |-> None]
        v2 == IF Button("submit_to_db_button", trig)
              THEN [v1 EXCEPT !.notices = @ \cup (IF saved.id # None THEN {"saved"} ELSE {"save_failed"})]
              ELSE v1
        prescriptions == fetch_stored_prescriptions(saved.store, e)
        v3 == IF Button("view_prescriptions_button", trig)
              THEN IF prescriptions # <<>>
                   THEN [v2 EXCEPT !.listed = prescriptions]
                   ELSE [v2 EXCEPT !.notices = @ \cup {"no_prescriptions"}]
              ELSE v2
    IN  IF Button("chat_prescription_button", trig)
        THEN [ss |-> [ss EXCEPT !.current_prescription = extracted_text, !.page = ChatWithData],
              store |-> saved.store, view |-> v3, turn |-> NoTurn, rerun |-> TRUE]
        ELSE Out(ss, saved.store, v3)

\* the else branch of line 245 with lines 249-253 run whenever the branch is
\* rendered, not only under the button
follow_on_no_db_auto_switch(extracted_text, ss, st, v, trig) ==
    LET v1 == [v EXCEPT !.widgets = @ \cup {"chat_prescription_no_db_button"}]
    IN  [ss |-> [ss EXCEPT !.current_prescription = extracted_text, !.page = ChatWithData],
         store |-> st, view |-> v1, turn |-> NoTurn, rerun |-> TRUE]

\* the else branch of line 245 reduced to its warning: no chat button
follow_on_no_db_warning_only(extracted_text, ss, st, v, trig) ==
    Out(ss, st, [v EXCEPT !.notices = @ \cup {"db_warning"}])

\* the chat button when the collection is not available, lines 245-255
follow_on_no_db(extracted_text, ss, st, v, trig) ==
    LET v1 == [v EXCEPT !.widgets = @ \cup {"chat_prescription_no_db_button"}]
    IN  IF Button("chat_prescription_no_db_button", trig)
        THEN [ss |-> [ss EXCEPT !.current_prescription = extracted_text, !.page = ChatWithData],
              store |-> st, view |-> v1, turn |-> NoTurn, rerun |-> TRUE]
        ELSE Out(ss, st, [v1 EXCEPT !.notices = @ \cup {"db_warning"}])

\* page == "Extract Text", lines 192-255
extract_page(collection, ss, w, st, v, trig, e) ==
    LET v0 == [v EXCEPT !.page = ExtractText, !.widgets = @ \cup {"file_uploader"}]
        v1 == [v0 EXCEPT !.widgets = @ \cup {"extract_button"}]
        extracted_text == extract_text_from_image(w.uploaded_file)
    IN  IF w.uploaded_file = NoFile THEN Out(ss, st, v0)
        ELSE IF ~Button("extract_button", trig) THEN Out(ss, st, v1)
        ELSE IF ~Truthy(extracted_text)
        THEN Out(ss, st, IF extracted_text = None THEN [v1 EXCEPT !.notices = @ \cup {"ocr_error"}] ELSE v1)
        ELSE IF collection
        THEN follow_on_db(extracted_text, ss, st, [v1 EXCEPT !.text_area = extracted_text], trig, e)
        ELSE follow_on_no_db(extracted_text, ss, st, [v1 EXCEPT !.text_area = extracted_text], trig)

\* the page without the early returns of lines 299 and 306
chat_page_no_return(collection, ss, w, st, v, trig, query, e) ==
    LET v0 == [v EXCEPT !.page = ChatWithData]
        has_current_prescription == Truthy(ss.current_prescription)
        prescriptions == IF collection THEN fetch_stored_prescriptions(st, e) ELSE <<>>
        options == prescription_options(prescriptions, has_current_prescription)
        selected_option == selectbox_value(w.selectbox, options)
        vsel == [v0 EXCEPT !.widgets = @ \cup {"selectbox"}, !.options = options,
                           !.fetched = prescriptions,
                           !.selected = selected_option,
                           !.prescription_data = selected_data(selected_option, prescriptions, ss)]
        vcur == [v0 EXCEPT !.notices = @ \cup {"using_current"},
                           !.prescription_data = ss.current_prescription]
        vnone == [v0 EXCEPT !.notices = @ \cup {"no_data_guidance"}, !.prescription_data = <<>>]
    IN  IF collection /\ prescriptions # <<>>
        THEN display_chat_interface(vsel.prescription_data, ss, st, vsel, trig, query, e)
        ELSE IF has_current_prescription
        THEN display_chat_interface(vcur.prescription_data, ss, st, vcur, trig, query, e)
        ELSE display_chat_interface(<<>>, ss, st, vnone, trig, query, e)

\* page == "Chat with Prescription Data", lines 257-313
chat_page(collection, ss, w, st, v, trig, query, e) ==
    LET v0 == [v EXCEPT !.page = ChatWithData]
        has_current_prescription == Truthy(ss.current_prescription)
        prescriptions == IF collection THEN fetch_stored_prescriptions(st, e) ELSE <<>>
        options == prescription_options(prescriptions, has_current_prescription)
        selected_option == selectbox_value(w.selectbox, options)
        vsel == [v0 EXCEPT !.widgets = @ \cup {"selectbox"}, !.options = options,
                           !.fetched = prescriptions,
                           !.selected = selected_option,
                           !.prescription_data = selected_data(selected_option, prescriptions, ss)]
        vcur == [v0 EXCEPT !.notices = @ \cup {"using_current"},
                           !.prescription_data = ss.current_prescription]
    IN  IF collection /\ prescriptions # <<>>
        THEN display_chat_interface(vsel.prescription_data, ss, st, vsel, trig, query, e)
        ELSE IF has_current_prescription
        THEN display_chat_interface(vcur.prescription_data, ss, st, vcur, trig, query, e)
        ELSE Out(ss, st, [v0 EXCEPT !.notices = @ \cup {"no_data_guidance"}])

\* the page passing the stored prescriptions to the chat panel
direct_page_with_stored(ss, st, trig, query, e) ==
    display_chat_interface(AllData(SortByDateDesc(st, DOMAIN st)), ss, st,
                           [EmptyView EXCEPT !.page = DirectChat], trig, query, e)

\* page == "Direct Chat", lines 315-320
direct_page(ss, st, trig, query, e) ==
    display_chat_interface(None, ss, st, [EmptyView EXCEPT !.page = DirectChat], trig, query, e)

\* main() where the page switch of line 178 also resets the transcript
main_switch_resets(ss, w, st, trig, query, e) ==
    IF w.radio # ss.page
    THEN [ss |-> [ss EXCEPT !.page = w.radio, !.chat_history = <<>>], store |-> st,
          view |-> EmptyView, turn |-> NoTurn, rerun |-> TRUE]
    ELSE LET collection == IF ss.page \in {ExtractText, ChatWithData}
                           THEN get_db_connection(e) ELSE FALSE
             v == IF ss.page = DirectChat THEN EmptyView
                  ELSE IF collection THEN [EmptyView EXCEPT !.notices = {"db_connected"}]
                  ELSE [EmptyView EXCEPT !.notices = {"db_connection_error"}]
         IN  CASE ss.page = ExtractText -> extract_page(collection, ss, w, st, v, trig, e)
               [] ss.page = ChatWithData -> chat_page(collection, ss, w, st, v, trig, query, e)
               [] ss.page = DirectChat -> direct_page(ss, st, trig, query, e)

\* main(), lines 164-320
main(ss, w, st, trig, query, e) ==
    IF w.radio # ss.page
    THEN [ss |-> [ss EXCEPT !.page = w.radio], store |-> st, view |-> EmptyView,
          turn |-> NoTurn, rerun |-> TRUE]
    ELSE LET collection == IF ss.page \in {ExtractText, ChatWithData}
                           THEN get_db_connection(e) ELSE FALSE
             v == IF ss.page = DirectChat THEN EmptyView
                  ELSE IF collection THEN [EmptyView EXCEPT !.notices = {"db_connected"}]
                  ELSE [EmptyView EXCEPT !.notices = {"db_connection_error"}]
         IN  CASE ss.page = ExtractText -> extract_page(collection, ss, w, st, v, trig, e)
               [] ss.page = ChatWithData -> chat_page(collection, ss, w, st, v, trig, query, e)
               [] ss.page = DirectChat -> direct_page(ss, st, trig, query, e)

(***************************************************************************)
(* The session: user events, each followed by one run of the script        *)
(***************************************************************************)
SessionState == [page |-> page, current_prescription |-> current_prescription,
                 chat_history |-> chat_history]

Widgets == [radio |-> radio, uploaded_file |-> uploaded_file, selectbox |-> selectbox]

\* the collections a session can find at start: documents in insertion
\* order, each dated later than the one before
Stores == UNION {{st \in [1..n -> [extracted_text : StoredTexts, upload_date : 1..n]] :
                     \A i \in 1..n : st[i].upload_date = i}
                 : n \in 0..MaxRecords}

Init ==
    /\ page = ExtractText
    /\ current_prescription = None
    /\ chat_history = <<>>
    /\ radio = ExtractText
    /\ uploaded_file = NoFile
    /\ selectbox = NoSelect
    /\ store \in Stores
    /\ api_key \in ApiKeys
    /\ pc = "run"
    /\ view = EmptyView
    /\ turn = NoTurn
    /\ turns = 0
    /\ last = "start"

\* What the collaborators can do during a run with widget values w and
\* triggers trig.  A collaborator the run cannot call is left out of the
\* choice: the ping when the run stops at line 179 or renders Direct Chat,
\* find outside Chat with Prescription Data and the view button, insert_one
\* without the submit button, requests.post without a chat input.
RunEnvs(w, trig) ==
    {e \in Envs :
        /\ (w.radio # page \/ page = DirectChat) => e.db
        /\ ~(w.radio = page /\ (page = ChatWithData \/ "view_prescriptions_button" \in trig))
              => e.find
        /\ "submit_to_db_button" \notin trig => e.insert
        /\ "chat_input" \notin trig => e.api = [kind |-> "ok", text |-> <<"r">>]}

\* One run of the script with widget values w, and the state it leaves.
\* Widgets the run did not render lose their value when the run completes.
Run(w, trig, query, ev) ==
    \E e \in RunEnvs(w, trig) :
    LET r == main(SessionState, w, store, trig, query, e)
    IN  /\ page' = r.ss.page
        /\ current_prescription' = r.ss.current_prescription
        /\ chat_history' = r.ss.chat_history
        /\ store' = r.store
        /\ view' = r.view
        /\ turn' = r.turn
        /\ pc' = IF r.rerun THEN "run" ELSE "idle"
        /\ radio' = w.radio
        /\ uploaded_file' = IF r.rerun \/ "file_uploader" \in r.view.widgets
                            THEN w.uploaded_file ELSE NoFile
        /\ selectbox' = IF r.rerun THEN w.selectbox
                        ELSE IF "selectbox" \in r.view.widgets
                        THEN [options |-> r.view.options, value |-> r.view.selected]
                        ELSE NoSelect
        /\ turns' = IF ev = "clear" /\ r.ss.chat_history = <<>> THEN 0
                    ELSE IF r.turn # NoTurn THEN turns + 1
                    ELSE turns
        /\ last' = ev
        /\ UNCHANGED api_key

\* the first run of a session, and every run st.rerun() asks for, which
\* serves the same user event as the run that asked
Rerun ==
    /\ pc = "run"
    /\ Run(Widgets, {}, None, last)

\* the user picks another page in the sidebar radio
Navigate(p) ==
    /\ pc = "idle"
    /\ p # radio
    /\ Run([Widgets EXCEPT !.radio = p], {}, None, "navigate")

\* the user uploads an image
Upload(image) ==
    /\ pc = "idle"
    /\ "file_uploader" \in view.widgets
    /\ image # uploaded_file
    /\ Run([Widgets EXCEPT !.uploaded_file = image], {}, None, "upload")

\* the user presses a button the last run rendered
Click(key, ev) ==
    /\ pc = "idle"
    /\ key \in view.widgets
    /\ Run(Widgets, {key}, None, ev)

ClickExtract == Click("extract_button", "extract")

ClickSubmit == Click("submit_to_db_button", "persist")

ClickView == Click("view_prescriptions_button", "list")

ClickChat == Click("chat_prescription_button", "chat_prescription")

ClickChatNoDb == Click("chat_prescription_no_db_button", "chat_prescription")

ClickClear == Click("clear_chat_history_button", "clear")

\* the user picks another option of the selectbox
Select(option) ==
    /\ pc = "idle"
    /\ "selectbox" \in view.widgets
    /\ option # view.selected
    /\ Run([Widgets EXCEPT !.selectbox = [options |-> view.options, value |-> option]],
           {}, None, "select")

\* the user submits a question in the chat input
SubmitChat(query) ==
    /\ pc = "idle"
    /\ "chat_input" \in view.widgets
    /\ Len(chat_history) < 2 * MaxTurns
    /\ Run(Widgets, {"chat_input"}, query, "chat")

Next ==
    \/ Rerun
    \/ \E p \in Pages : Navigate(p)
    \/ \E image \in Images : Upload(image)
    \/ ClickExtract
    \/ ClickSubmit
    \/ ClickView
    \/ ClickChat
    \/ ClickChatNoDb
    \/ ClickClear
    \/ \E i \in 1..Len(view.options) : Select(view.options[i])
    \/ \E query \in Queries : SubmitChat(query)

Spec == Init /\ [][Next]_vars

(***************************************************************************)
(* Properties                                                              *)
(***************************************************************************)
\* C1: whenever the session is idle, chat_history holds exactly two
\* messages per chat turn completed since it was last cleared, and its
\* roles alternate user, assistant, user, assistant, ...
C1_TurnsPaired ==
    pc = "idle" =>
        /\ Len(chat_history) = 2 * turns
        /\ \A i \in 1..Len(chat_history) :
              chat_history[i].role = IF i % 2 = 1 THEN "user" ELSE "assistant"

\* two turns completed, one whose completion call failed and one that succeeded
C1_Witness ==
    /\ pc = "idle"
    /\ turns = 2
    /\ \E i \in 1..Len(chat_history) : chat_history[i].content = <<"r">>
    /\ \E i \in 1..Len(chat_history) :
          Head(chat_history[i].content) = "Error querying Mistral API: "

\* C2: once the run serving a press of "Chat with this Prescription" has
\* settled, current_prescription is the text extracted from the uploaded
\* image, page is ChatWithData and ChatWithData is the rendered page.
C2_ChatActionOpensChat ==
    (last = "chat_prescription" /\ pc = "idle") =>
        /\ current_prescription = extract_text_from_image(uploaded_file)
        /\ page = ChatWithData
        /\ view.page = ChatWithData

\* C3: a run serving a press of "Submit to Database" that reaches the store
\* and reports no insert failure adds exactly one document, whose
\* extracted_text is the text extracted from the uploaded image.
C3_PersistAddsRecord ==
    [][(last' = "persist" /\ "db_connected" \in view'.notices
            /\ "save_failed" \notin view'.notices)
        => /\ Len(store') = Len(store) + 1
           /\ store'[Len(store')].extracted_text = extract_text_from_image(uploaded_file')]_vars

\* C4: on ChatWithData, when the store is reachable and list_all returned
\* records, the selector is shown with the options Current Extracted
\* Prescription (exactly when current_prescription is set), All
\* Prescriptions, and one label per record in list order, and the selected
\* option fixes prescription_data; otherwise a set current_prescription is
\* used without a selector; otherwise nothing is resolved.
C4_ResolutionPrecedence ==
    view.page = ChatWithData =>
        LET isSet == Truthy(current_prescription)
            c == IF isSet THEN 1 ELSE 0
            recs == view.fetched
            n == Len(recs)
        IN  IF "db_connected" \in view.notices /\ recs # <<>>
            THEN /\ "selectbox" \in view.widgets
                 /\ Len(view.options) = c + 1 + n
                 /\ \A k \in 1..Len(view.options) :
                       view.options[k] = CurrentExtracted <=> (isSet /\ k = 1)
                 /\ view.options[c + 1] = AllPrescriptions
                 /\ \A i \in 1..n :
                       view.options[c + 1 + i] =
                           <<"Prescription", " ", DigitChar[i + 1], " ", "-", " ">>
                           \o DateStr(recs[i].upload_date)
                 /\ \E k \in 1..Len(view.options) :
                       /\ view.selected = view.options[k]
                       /\ view.prescription_data =
                             IF k = c + 1 THEN AllData(recs)
                             ELSE IF k <= c THEN current_prescription
                             ELSE recs[k - c - 1].extracted_text
            ELSE IF isSet
            THEN /\ "selectbox" \notin view.widgets
                 /\ view.prescription_data = current_prescription
                 /\ view.panel
            ELSE /\ "selectbox" \notin view.widgets
                 /\ view.prescription_data = None
                 /\ ~view.panel

\* the selector over two stored records, with the second record selected
C4_Witness ==
    /\ pc = "idle"
    /\ "selectbox" \in view.widgets
    /\ Len(view.fetched) = 2
    /\ view.selected = view.options[Len(view.options)]
    /\ view.fetched[1].extracted_text # view.fetched[2].extracted_text
    /\ view.prescription_data = view.fetched[2].extracted_text

\* C5: a run that renders ChatWithData with no current_prescription and
\* with the store unreachable or returning no records shows the guidance,
\* renders no chat panel and no chat input, and leaves chat_history as it was.
C5_NoDataNoPanel ==
    [][(/\ view'.page = ChatWithData
        /\ ~Truthy(current_prescription')
        /\ ("db_connected" \notin view'.notices \/ view'.fetched = <<>>))
        => /\ "no_data_guidance" \in view'.notices
           /\ ~view'.panel
           /\ "chat_input" \notin view'.widgets
           /\ "clear_chat_history_button" \notin view'.widgets
           /\ chat_history' = chat_history]_vars

\* the guidance shown to a session that already holds a transcript
C5_Witness ==
    /\ pc = "idle"
    /\ view.page = ChatWithData
    /\ "no_data_guidance" \in view.notices
    /\ chat_history # <<>>

\* C6: every chat turn on ChatWithData that reaches the completion service
\* sends the prescription-context instructions with the resolved
\* prescription_data embedded verbatim.
C6_ChatWithDataSendsContext ==
    (turn.page = ChatWithData /\ turn.network) =>
        turn.system = PrescriptionSystemPrefix
                      \o <<"\nPrescription data: ">> \o turn.prescription_data

\* C7: a run that executes a chat turn appends exactly the user message
\* and one assistant message; without a credential no request is sent and
\* the reply is the fixed missing-credential text; when the request fails
\* or the response is malformed the reply is the error text naming the failure.
C7_FailureCompletesTurn ==
    [][turn' # NoTurn =>
        /\ chat_history' = chat_history
                \o <<[role |-> "user", content |-> turn'.prompt],
                     [role |-> "assistant", content |-> turn'.response]>>
        /\ ~Truthy(api_key) => (~turn'.network /\ turn'.response = MissingKeyError)
        /\ Truthy(api_key) => turn'.network
        /\ turn'.api.kind = "error" =>
              turn'.response = <<"Error querying Mistral API: ">> \o turn'.api.text]_vars

\* two turns completed without a credential
C7_Witness ==
    /\ turn # NoTurn
    /\ ~turn.network
    /\ Len(chat_history) = 4
    /\ chat_history[4].content = MissingKeyError

\* C8: once the run serving a press of "Extract Text" has settled for an
\* image whose OCR output is empty after trimming, the chat action is
\* offered and, with the store reachable, so is the persist action.
C8_EmptyTextStillOffersActions ==
    (last = "extract" /\ pc = "idle" /\ uploaded_file.ok /\ strip(uploaded_file.raw) = <<>>) =>
        /\ view.widgets \cap {"chat_prescription_button", "chat_prescription_no_db_button"} # {}
        /\ "db_connected" \in view.notices => "submit_to_db_button" \in view.widgets

\* C9: the runs serving a page switch leave chat_history and
\* current_prescription as they were, and current_prescription changes
\* only in a run serving the chat action of a successful extraction.
C9_NavigationFrame ==
    [][/\ last' = "navigate" =>
            (chat_history' = chat_history /\ current_prescription' = current_prescription)
       /\ current_prescription' # current_prescription =>
            (last' = "chat_prescription" /\ Truthy(current_prescription'))]_vars

\* a page switch settled on DirectChat with a transcript in the session
C9_Witness ==
    /\ pc = "idle"
    /\ last = "navigate"
    /\ page = DirectChat
    /\ view.page = DirectChat
    /\ Len(chat_history) >= 2

\* the i-th newest document of the collection
NewestRecord(i) ==
    CHOOSE r \in {store[j] : j \in DOMAIN store} :
        Cardinality({j \in DOMAIN store : store[j].upload_date > r.upload_date}) = i - 1

RECURSIVE ExpectedAllFrom(_)
\* the blocks of records i..n, newest first, separated by blank lines
ExpectedAllFrom(i) ==
    IF i > Len(store) THEN <<>>
    ELSE <<"Prescription", " ", DigitChar[i + 1], ":", "\n">> \o NewestRecord(i).extracted_text
         \o (IF i < Len(store) THEN <<"\n", "\n">> \o ExpectedAllFrom(i + 1) ELSE <<>>)

\* C10: with All Prescriptions selected, prescription_data is the
\* concatenation, newest record first, of one block per stored record: the
\* label Prescription i followed by the record's unmodified extracted_text.
C10_AllPrescriptionsOrder ==
    ("selectbox" \in view.widgets /\ view.selected = AllPrescriptions) =>
        view.prescription_data = ExpectedAllFrom(1)

\* All Prescriptions selected over two records with different texts
C10_Witness ==
    /\ pc = "idle"
    /\ "selectbox" \in view.widgets
    /\ view.selected = AllPrescriptions
    /\ Len(store) = 2
    /\ store[1].extracted_text # store[2].extracted_text

\* s is a prefix of t
IsPrefix(s, t) == Len(s) <= Len(t) /\ SubSeq(t, 1, Len(s)) = s

\* C11: in every step the new chat_history either extends the old one or
\* is empty in a run serving a press of the clear button; a run serving a
\* page switch, an upload, an extraction, a persist, a listing, a chat
\* action or a selector change leaves chat_history exactly as it was.
C11_AppendOnlyUntilCleared ==
    [][/\ \/ IsPrefix(chat_history, chat_history')
          \/ (chat_history' = <<>> /\ last' = "clear")
       /\ last' \in {"navigate", "upload", "extract", "persist", "list",
                     "chat_prescription", "select"}
            => chat_history' = chat_history]_vars

\* a transcript emptied by a press of the clear button, the panel rendered again
C11_Witness ==
    /\ pc = "idle"
    /\ last = "clear"
    /\ chat_history = <<>>
    /\ turns = 0
    /\ "chat_input" \in view.widgets
    /\ "clear_chat_history_button" \notin view.widgets

\* the follow-on buttons of an extraction
FollowOnButtons == {"submit_to_db_button", "view_prescriptions_button",
                    "chat_prescription_button", "chat_prescription_no_db_button"}

\* C12: a run serving a press of "Extract Text" on an image whose OCR call
\* raises reports the error, stays on ExtractText, leaves
\* current_prescription, chat_history and the collection as they were, and
\* renders no extracted text and no follow-on button.
C12_OcrFailureChangesNothing ==
    [][(last' = "extract" /\ uploaded_file' # NoFile /\ ~uploaded_file'.ok)
        => /\ "ocr_error" \in view'.notices
           /\ page' = ExtractText
           /\ view'.page = ExtractText
           /\ pc' = "idle"
           /\ current_prescription' = current_prescription
           /\ chat_history' = chat_history
           /\ store' = store
           /\ view'.text_area = None
           /\ view'.widgets \cap FollowOnButtons = {}]_vars

\* a failed extraction in a session that holds a transcript and a non-empty store
C12_Witness ==
    /\ pc = "idle"
    /\ last = "extract"
    /\ uploaded_file # NoFile
    /\ ~uploaded_file.ok
    /\ "ocr_error" \in view.notices
    /\ chat_history # <<>>
    /\ store # <<>>

\* C13: a run that finds the store unreachable makes no store call and
\* still completes its page: on ExtractText an extraction with text shows
\* the text and offers the chat action but neither persist nor list; on
\* ChatWithData a set current_prescription becomes prescription_data and
\* the chat panel is rendered.
C13_StoreUnreachableDegrades ==
    [][/\ "db_connection_error" \in view'.notices
            => /\ store' = store
               /\ view'.fetched = <<>>
               /\ view'.listed = <<>>
               /\ "selectbox" \notin view'.widgets
       /\ (/\ "db_connection_error" \in view'.notices
           /\ last' = "extract"
           /\ uploaded_file'.ok
           /\ strip(uploaded_file'.raw) # <<>> \/ uploaded_file'.raw = <<>>)
            => /\ pc' = "idle"
               /\ view'.text_area # None
               /\ "chat_prescription_no_db_button" \in view'.widgets
               /\ "submit_to_db_button" \notin view'.widgets
               /\ "view_prescriptions_button" \notin view'.widgets
       /\ (/\ "db_connection_error" \in view'.notices
           /\ view'.page = ChatWithData
           /\ Truthy(current_prescription'))
            => /\ view'.panel
               /\ view'.prescription_data = current_prescription']_vars

\* an extraction with the store unreachable: the text shown, the chat action offered
C13_Witness ==
    /\ pc = "idle"
    /\ last = "extract"
    /\ "db_connection_error" \in view.notices
    /\ view.text_area = <<"a">>
    /\ "chat_prescription_no_db_button" \in view.widgets
    /\ store # <<>>

\* C14: page starts as ExtractText; it changes only in a run serving a
\* page switch, to the page picked in the radio, or in a run serving the
\* chat action, to ChatWithData; once a page switch has settled the picked
\* page is the session's page and the rendered page, and every later run
\* serving another kind of event keeps and renders that page.
C14_PageChangesOnlyOnRequest ==
    /\ page = ExtractText
    /\ [][/\ page' # page
               => \/ (last' = "navigate" /\ page' = radio')
                  \/ (last' = "chat_prescription" /\ page' = ChatWithData)
          /\ (pc' = "idle" /\ last' = "navigate")
               => (page' = radio' /\ view'.page = radio')
          /\ (pc = "idle" /\ pc' = "idle" /\ last' \notin {"navigate", "chat_prescription"})
               => (page' = page /\ view'.page = page)]_vars

\* a chat turn rendered on DirectChat, the page the user switched to earlier
C14_Witness ==
    /\ pc = "idle"
    /\ last = "chat"
    /\ page = DirectChat
    /\ view.page = DirectChat
    /\ radio = DirectChat

\* C15: a chat turn on DirectChat carries no prescription data and, when a
\* request is sent, sends the generic-assistant instructions; a run that
\* renders DirectChat pings no store and queries none.
C15_DirectChatIsGeneric ==
    /\ turn.page = DirectChat
         => /\ turn.prescription_data = None
            /\ turn.network => turn.system = GenericSystemMessage
    /\ view.page = DirectChat
         => /\ view.panel
            /\ view.prescription_data = None
            /\ view.notices \cap {"db_connected", "db_connection_error"} = {}
            /\ view.fetched = <<>>
            /\ view.listed = <<>>

\* a turn sent from DirectChat while the collection holds a non-empty record
C15_Witness ==
    /\ pc = "idle"
    /\ turn.page = DirectChat
    /\ turn.network
    /\ turn.api.kind = "ok"
    /\ \E i \in DOMAIN store : store[i].extracted_text # <<>>

\* C16: in the rendered selector the label built for the i-th listed
\* record parses back to the ordinal i, whose index i - 1 lies inside the
\* list, is neither All Prescriptions nor Current Extracted Prescription,
\* and, when selected, resolves prescription_data to the i-th record's
\* extracted_text; the ordinal round trip holds for every ordinal up to
\* MaxOrdinal, one-digit or not.
C16_LabelSelectsItsRecord ==
    /\ "selectbox" \in view.widgets =>
          LET recs == view.fetched
              n == Len(recs)
              c == Len(view.options) - n - 1
          IN  /\ n >= 1
              /\ c \in {0, 1}
              /\ \A i \in 1..n :
                    LET label == view.options[c + 1 + i]
                        ordinal == ParseInt(Split(label, " ")[2])
                    IN  /\ label \notin {AllPrescriptions, CurrentExtracted}
                        /\ ordinal = i
                        /\ ordinal - 1 \in 0..(n - 1)
                        /\ view.selected = label
                              => view.prescription_data = recs[i].extracted_text
    /\ \A i \in 1..MaxOrdinal :
          LET label == OptionLabel(i, [extracted_text |-> <<>>, upload_date |-> i])
          IN  /\ label \notin {AllPrescriptions, CurrentExtracted}
              /\ ParseInt(Split(label, " ")[2]) = i

\* the first of two different records selected through its label
C16_Witness ==
    /\ pc = "idle"
    /\ last = "select"
    /\ "selectbox" \in view.widgets
    /\ Len(view.fetched) = 2
    /\ view.selected = OptionLabel(1, view.fetched[1])
    /\ view.prescription_data = view.fetched[1].extracted_text
    /\ view.fetched[1].extracted_text # view.fetched[2].extracted_text

============================================================================
